---------------------------- MODULE Spec2Model ----------------------------
(***************************************************************************)
(* A model of instagram_follower_compare.py: the loader, the two           *)
(* extractors, the differ, the reporter and main.                          *)
(*                                                                         *)
(* Python values are tagged records.  A str is the sequence of its code    *)
(* points, so that substring tests, lexicographic order and UTF-8 encoding *)
(* are computed and not assumed.  A dict is the sequence of its            *)
(* <<key, value>> pairs in insertion order, keys distinct.                 *)
(* A call either returns (Ok) or raises (Raise).                           *)
(***************************************************************************)
EXTENDS Integers, Sequences, FiniteSets, TLC

-----------------------------------------------------------------------------
(* Bounds of the model *)

\* longest JSON array of records in a generated input
MaxRecords == 2
\* longest "string_list_data" array in a generated followers record
MaxEntries == 1
\* longest identifier handed to write_to_file directly
MaxStrLen == 2
\* largest set handed to write_to_file directly
MaxUsers == 2
\* runs of main in one behaviour
MaxRuns == 2

-----------------------------------------------------------------------------
(* Python values *)

PyStr(s) == [t |-> "str", s |-> s]
PyInt(n) == [t |-> "int", n |-> n]
PyNone == [t |-> "NoneType"]
PyList(a) == [t |-> "list", a |-> a]
PyDict(kv) == [t |-> "dict", kv |-> kv]

Ok(v) == [ok |-> TRUE, val |-> v]
Raise(e) == [ok |-> FALSE, exc |-> e]

\* the literals of the source, as code points
K_string_list_data ==
    <<115, 116, 114, 105, 110, 103, 95, 108, 105, 115, 116, 95, 100, 97, 116, 97>>
K_value == <<118, 97, 108, 117, 101>>
K_title == <<116, 105, 116, 108, 101>>
K_relationships_following ==
    <<114, 101, 108, 97, 116, 105, 111, 110, 115, 104, 105, 112, 115, 95,
      102, 111, 108, 108, 111, 119, 105, 110, 103>>
K_timestamp == <<116, 105, 109, 101, 115, 116, 97, 109, 112>>
\* "\n"
Newline == 10

\* needle in hay, for two str: needle occurs as a contiguous run of hay
IsSubstring(needle, hay) ==
    \E i \in 0..(Len(hay) - Len(needle)) :
        SubSeq(hay, i + 1, i + Len(needle)) = needle

DictKeys(d) == {d.kv[i][1] : i \in DOMAIN d.kv}
DictGet(d, k) == d.kv[CHOOSE i \in DOMAIN d.kv : d.kv[i][1] = k][2]

\* PyIn as it would be had the code indexed without testing for the key first
PyIn_missing_raises(key, c) ==
    CASE c.t = "dict" -> IF key \in DictKeys(c) THEN Ok(TRUE) ELSE Raise("KeyError")
      [] c.t = "list" -> Ok(\E i \in DOMAIN c.a : c.a[i] = PyStr(key))
      [] c.t = "str" -> Ok(IsSubstring(key, c.s))
      [] OTHER -> Raise("TypeError")

\* key in container, key a str literal
PyIn(key, c) ==
    CASE c.t = "dict" -> Ok(key \in DictKeys(c))
      [] c.t = "list" -> Ok(\E i \in DOMAIN c.a : c.a[i] = PyStr(key))
      [] c.t = "str" -> Ok(IsSubstring(key, c.s))
      [] OTHER -> Raise("TypeError")

\* container[key], key a str literal
PyGetItem(c, key) ==
    CASE c.t = "dict" ->
            IF key \in DictKeys(c) THEN Ok(DictGet(c, key)) ELSE Raise("KeyError")
      [] OTHER -> Raise("TypeError")

\* the sequence a for loop over c visits
PyIter(c) ==
    CASE c.t = "list" -> Ok(c.a)
      [] c.t = "dict" -> Ok([i \in DOMAIN c.kv |-> PyStr(c.kv[i][1])])
      [] c.t = "str" -> Ok([i \in DOMAIN c.s |-> PyStr(<<c.s[i]>>)])
      [] OTHER -> Raise("TypeError")

\* set.add(x) needs hash(x)
Hashable(x) == x.t \in {"str", "int", "NoneType"}

-----------------------------------------------------------------------------
(* extract_followers *)

\* the inner loop, from item i of items on, usernames accumulated so far
RECURSIVE FollowersItems(_, _, _)
FollowersItems(items, i, usernames) ==
    IF i > Len(items) THEN Ok(usernames)
    ELSE LET item == items[i]
             has == PyIn(K_value, item)
         IN  IF ~has.ok THEN has
             ELSE IF ~has.val THEN FollowersItems(items, i + 1, usernames)
             ELSE LET v == PyGetItem(item, K_value)
                  IN  IF ~v.ok THEN v
                      ELSE IF ~Hashable(v.val) THEN Raise("TypeError")
                      ELSE FollowersItems(items, i + 1, usernames \cup {v.val})

\* the outer loop, from entry i of entries on
RECURSIVE FollowersEntries(_, _, _)
FollowersEntries(entries, i, usernames) ==
    IF i > Len(entries) THEN Ok(usernames)
    ELSE LET entry == entries[i]
             has == PyIn(K_string_list_data, entry)
         IN  IF ~has.ok THEN has
             ELSE IF ~has.val THEN FollowersEntries(entries, i + 1, usernames)
             ELSE LET sld == PyGetItem(entry, K_string_list_data)
                  IN  IF ~sld.ok THEN sld
                      ELSE LET it == PyIter(sld.val)
                           IN  IF ~it.ok THEN it
                               ELSE LET r == FollowersItems(it.val, 1, usernames)
                                    IN  IF ~r.ok THEN r
                                        ELSE FollowersEntries(entries, i + 1, r.val)

\* extract_followers with the return inside the outer loop
extract_followers_return_in_loop(data) ==
    LET it == PyIter(data)
    IN  IF ~it.ok THEN it
        ELSE IF it.val = <<>> THEN Ok({})
        ELSE FollowersEntries(<<it.val[1]>>, 1, {})

extract_followers(data) ==
    LET it == PyIter(data)
    IN  IF ~it.ok THEN it ELSE FollowersEntries(it.val, 1, {})

-----------------------------------------------------------------------------
(* extract_following *)

RECURSIVE FollowingEntries(_, _, _)
FollowingEntries(entries, i, usernames) ==
    IF i > Len(entries) THEN Ok(usernames)
    ELSE LET entry == entries[i]
             has == PyIn(K_title, entry)
         IN  IF ~has.ok THEN has
             ELSE IF ~has.val THEN FollowingEntries(entries, i + 1, usernames)
             ELSE LET v == PyGetItem(entry, K_title)
                  IN  IF ~v.ok THEN v
                      ELSE IF ~Hashable(v.val) THEN Raise("TypeError")
                      ELSE FollowingEntries(entries, i + 1, usernames \cup {v.val})

\* extract_following without the test for "relationships_following"
extract_following_unguarded(data) ==
    LET rf == PyGetItem(data, K_relationships_following)
    IN  IF ~rf.ok THEN rf
        ELSE LET it == PyIter(rf.val)
             IN  IF ~it.ok THEN it
                 ELSE FollowingEntries(it.val, 1, {})

extract_following(data) ==
    LET has == PyIn(K_relationships_following, data)
    IN  IF ~has.ok THEN has
        ELSE IF ~has.val THEN Ok({})
        ELSE LET rf == PyGetItem(data, K_relationships_following)
             IN  IF ~rf.ok THEN rf
                 ELSE LET it == PyIter(rf.val)
                      IN  IF ~it.ok THEN it
                          ELSE FollowingEntries(it.val, 1, {})

-----------------------------------------------------------------------------
(* find_non_followers *)

\* find_non_followers with the operands swapped
find_non_followers_swapped(following, followers) == followers \ following

find_non_followers(following, followers) == following \ followers

-----------------------------------------------------------------------------
(* write_to_file *)

\* a < b for two str: lexicographic order of the code points
RECURSIVE StrLess(_, _)
StrLess(a, b) ==
    IF b = <<>> THEN FALSE
    ELSE IF a = <<>> THEN TRUE
    ELSE IF a[1] # b[1] THEN a[1] < b[1]
    ELSE StrLess(Tail(a), Tail(b))

\* PyLess as sorted(users, reverse=True) would use it
PyLess_reversed(x, y) ==
    IF x.t = "str" /\ y.t = "str" THEN StrLess(y.s, x.s) ELSE y.n < x.n

\* x < y, defined between two str and between two int
PyLess(x, y) ==
    IF x.t = "str" /\ y.t = "str" THEN StrLess(x.s, y.s) ELSE x.n < y.n

\* sorted() compares elements of a set of two or more: all str or all int
Sortable(users) ==
    \/ Cardinality(users) <= 1
    \/ \A x \in users : x.t = "str"
    \/ \A x \in users : x.t = "int"

\* ascending list of a sortable set
RECURSIVE SortedList(_)
SortedList(users) ==
    IF users = {} THEN <<>>
    ELSE LET m == CHOOSE x \in users : \A y \in users \ {x} : PyLess(x, y)
         IN  <<m>> \o SortedList(users \ {m})

sorted(users) ==
    IF Sortable(users) THEN Ok(SortedList(users)) ELSE Raise("TypeError")

\* str(n) for an int n >= 0
RECURSIVE Digits(_)
Digits(n) ==
    IF n < 10 THEN <<48 + n>> ELSE Digits(n \div 10) \o <<48 + (n % 10)>>

\* f"{user}"
Format(user) ==
    CASE user.t = "str" -> user.s
      [] user.t = "int" -> Digits(user.n)
      [] OTHER -> <<78, 111, 110, 101>>

IsSurrogate(c) == c >= 55296 /\ c <= 57343

\* the UTF-8 bytes of one code point that is not a surrogate
EncodeChar(c) ==
    IF c < 128 THEN <<c>>
    ELSE IF c < 2048 THEN <<192 + (c \div 64), 128 + (c % 64)>>
    ELSE IF c < 65536
         THEN <<224 + (c \div 4096), 128 + ((c \div 64) % 64), 128 + (c % 64)>>
    ELSE <<240 + (c \div 262144), 128 + ((c \div 4096) % 64),
           128 + ((c \div 64) % 64), 128 + (c % 64)>>

RECURSIVE EncodeUtf8(_)
EncodeUtf8(s) ==
    IF s = <<>> THEN <<>> ELSE EncodeChar(Head(s)) \o EncodeUtf8(Tail(s))

\* str.encode("utf-8") of the text of one f.write
Encode(s) ==
    IF \E i \in DOMAIN s : IsSurrogate(s[i])
    THEN Raise("UnicodeEncodeError") ELSE Ok(EncodeUtf8(s))

NoFile == [exists |-> FALSE, bytes |-> <<>>]
File(bytes) == [exists |-> TRUE, bytes |-> bytes]

\* the write loop from user i on; buf holds the bytes of the writes that returned
RECURSIVE WriteLoop(_, _, _)
WriteLoop(sorted_users, i, buf) ==
    IF i > Len(sorted_users) THEN [buf |-> buf, res |-> Ok(PyNone)]
    ELSE LET e == Encode(Format(sorted_users[i]) \o <<Newline>>)
         IN  IF ~e.ok THEN [buf |-> buf, res |-> e]
             ELSE WriteLoop(sorted_users, i + 1, buf \o e.val)

\* leaving the with block closes the file, which flushes the buffered bytes;
\* on a full disk a non-empty flush fails and the opened file stays truncated
CloseFile(w, disk) ==
    IF disk = "full" /\ w.buf # <<>>
    THEN [file |-> File(<<>>), res |-> IF w.res.ok THEN Raise("OSError") ELSE w.res]
    ELSE [file |-> File(w.buf), res |-> w.res]

\* write_to_file(users, output_path): the file at output_path afterwards, and
\* the return or the exception.  open(.., 'w') fails on a location that is
\* not writable and otherwise truncates.
write_to_file(users, file, disk) ==
    LET s == sorted(users)
    IN  IF ~s.ok THEN [file |-> file, res |-> s]
        ELSE IF disk = "readonly" THEN [file |-> file, res |-> Raise("PermissionError")]
        ELSE CloseFile(WriteLoop(s.val, 1, <<>>), disk)

-----------------------------------------------------------------------------
(* load_json_file *)

Absent == [kind |-> "absent", data |-> PyNone]
Unreadable == [kind |-> "unreadable", data |-> PyNone]
BadUtf8 == [kind |-> "bad_utf8", data |-> PyNone]
BadJson == [kind |-> "bad_json", data |-> PyNone]
Json(v) == [kind |-> "json", data |-> v]

\* os.path.exists / Path.exists
Exists(content) == content.kind # "absent"

\* content is what is at filepath: nothing, a file that cannot be opened, bytes
\* that are not UTF-8, text that is not JSON, or the text of a JSON value
load_json_file(content) ==
    IF ~Exists(content) THEN Raise("FileNotFoundError")
    ELSE CASE content.kind = "unreadable" -> Raise("PermissionError")
           [] content.kind = "bad_utf8" -> Raise("UnicodeDecodeError")
           [] content.kind = "bad_json" -> Raise("JSONDecodeError")
           [] OTHER -> Ok(content.data)

\* the exception classes raised here and their bases
Bases(e) ==
    CASE e = "FileNotFoundError" -> {"FileNotFoundError", "OSError", "Exception"}
      [] e = "PermissionError" -> {"PermissionError", "OSError", "Exception"}
      [] e = "JSONDecodeError" -> {"JSONDecodeError", "ValueError", "Exception"}
      [] e = "UnicodeDecodeError" -> {"UnicodeDecodeError", "ValueError", "Exception"}
      [] e = "UnicodeEncodeError" -> {"UnicodeEncodeError", "ValueError", "Exception"}
      [] OTHER -> {e, "Exception"}

IsInstance(e, cls) == cls \in Bases(e)

-----------------------------------------------------------------------------
(* The inputs the model draws *)

\* sequences over S of length at most n
RECURSIVE SeqsUpTo(_, _)
SeqsUpTo(S, n) ==
    IF n = 0 THEN {<<>>}
    ELSE LET P == SeqsUpTo(S, n - 1)
         IN  P \cup {Append(q, x) : q \in {p \in P : Len(p) = n - 1}, x \in S}

\* subsets of S of at most n elements
RECURSIVE SetsUpTo(_, _)
SetsUpTo(S, n) ==
    IF n = 0 THEN {{}}
    ELSE LET P == SetsUpTo(S, n - 1) IN P \cup {p \cup {x} : p \in P, x \in S}

\* "a", "b" and the lone surrogate that json.load returns for "\ud800"
IdA == <<97>>
IdB == <<98>>
IdSurrogate == <<55296>>

Field(k, v) == <<k, v>>
Timestamp == Field(K_timestamp, PyInt(5))

\* entries of a "string_list_data" array: without "value", with one, and two
\* that are not of the documented shape (a number, an array as the value)
Entries ==
    {PyDict(<<Timestamp>>)}
        \cup {PyDict(<<Field(K_value, PyStr(u)), Timestamp>>) : u \in {IdA, IdB}}
        \cup {PyInt(5), PyDict(<<Field(K_value, PyList(<<>>))>>)}

\* records of the followers array: without "string_list_data", with one, and
\* two that are not of the documented shape
FollowerRecords ==
    {PyDict(<<Field(K_title, PyStr(<<>>))>>)}
        \cup {PyDict(<<Field(K_title, PyStr(<<>>)), Field(K_string_list_data, PyList(l))>>) :
                l \in SeqsUpTo(Entries, MaxEntries)}
        \cup {PyInt(5), PyDict(<<Field(K_string_list_data, PyNone)>>)}

FollowersInputs ==
    {PyList(l) : l \in SeqsUpTo(FollowerRecords, MaxRecords)}
        \cup {PyNone, PyDict(<<>>), PyList(<<PyStr(K_string_list_data)>>)}

\* records of "relationships_following": with a "title", without, and two that
\* are not of the documented shape
FollowingRecords ==
    {PyDict(<<Field(K_title, PyStr(u)), Field(K_string_list_data, PyList(<<>>))>>) :
        u \in {IdA, IdB}}
        \cup {PyDict(<<Field(K_string_list_data, PyList(<<>>))>>)}
        \cup {PyInt(5), PyDict(<<Field(K_title, PyList(<<>>))>>)}

FollowingInputs ==
    {PyDict(<<Field(K_relationships_following, PyList(l))>>) :
        l \in SeqsUpTo(FollowingRecords, MaxRecords)}
        \cup {PyDict(<<>>), PyDict(<<Field(K_title, PyStr(IdA))>>), PyNone, PyList(<<>>),
              PyList(<<PyStr(K_relationships_following)>>),
              PyDict(<<Field(K_relationships_following, PyNone)>>)}

\* the sets handed to find_non_followers directly
IdPool == {PyStr(IdA), PyStr(IdB), PyStr(<<97, 98>>), PyStr(<<>>)}

\* the sets handed to write_to_file directly: str over "\n", "a", "b" and a
\* lone surrogate, an int and None
WriteChars == {Newline, 97, 98, 55296}
WriteElems ==
    {PyStr(s) : s \in SeqsUpTo(WriteChars, MaxStrLen)} \cup {PyInt(5), PyNone}
WriteSets == SetsUpTo(WriteElems, MaxUsers)

\* the report "b\n" of an earlier run
OldReport == File(<<98, Newline>>)

Calls ==
    [fn : {"extract_followers"}, data : FollowersInputs]
        \cup [fn : {"extract_following"}, data : FollowingInputs]
        \cup [fn : {"find_non_followers"}, following : SUBSET IdPool,
              followers : SUBSET IdPool]
        \cup [fn : {"write_to_file"}, users : WriteSets,
              file : {NoFile, OldReport}, disk : {"ok", "readonly", "full"}]

-----------------------------------------------------------------------------
(* The files main reads *)

FollowerRec(u) ==
    PyDict(<<Field(K_title, PyStr(<<>>)),
             Field(K_string_list_data,
                   PyList(<<PyDict(<<Field(K_value, PyStr(u)), Timestamp>>)>>))>>)
FollowingRec(v) ==
    PyDict(<<Field(K_title, v), Field(K_string_list_data, PyList(<<>>))>>)
FollowingDoc(l) == PyDict(<<Field(K_relationships_following, l)>>)

Paths == {"followers_1.json", "followers.json", "following.json"}

PrimaryContents ==
    {Absent, Unreadable,
     Json(PyList(<<PyDict(<<Field(K_title, PyStr(<<>>))>>), FollowerRec(IdA)>>))}
FallbackContents ==
    {Absent, BadUtf8, BadJson, Json(PyList(<<>>)),
     Json(PyList(<<PyDict(<<Field(K_title, PyStr(<<>>))>>), FollowerRec(IdA),
                   FollowerRec(IdB)>>)),
     Json(PyList(<<PyInt(5)>>))}
FollowingContents ==
    {Absent, BadJson, Json(PyDict(<<>>)),
     Json(FollowingDoc(PyList(<<FollowingRec(PyStr(IdA)), FollowingRec(PyStr(IdB))>>))),
     Json(FollowingDoc(PyList(<<FollowingRec(PyStr(IdA)),
                                FollowingRec(PyStr(IdSurrogate))>>))),
     Json(FollowingDoc(PyList(<<PyDict(<<Field(K_string_list_data, PyList(<<>>))>>),
                                FollowingRec(PyStr(IdB))>>))),
     Json(FollowingDoc(PyNone)),
     Json(FollowingDoc(PyList(<<FollowingRec(PyInt(5)), FollowingRec(PyStr(IdA))>>)))}

FsStates ==
    {[p \in Paths |->
        CASE p = "followers_1.json" -> a
          [] p = "followers.json" -> b
          [] OTHER -> c] :
     a \in PrimaryContents, b \in FallbackContents, c \in FollowingContents}

\* the output location during a run of main: writable or not
DiskStates == {"ok", "readonly"}

-----------------------------------------------------------------------------
(* State *)

VARIABLES
    fs,                 \* what is at each input path
    disk,               \* whether the output location can be written
    out_file,           \* not_following_back.txt
    pc,                 \* the statement of main that runs next
    run,                \* the runs of main so far
    followers_path,     \* main's locals
    followers_data,
    following_data,
    followers,
    following,
    not_following_back,
    exc,                \* the exception on its way to main's handlers
    outcome,            \* what the run printed last
    out_before,         \* history: out_file when the run began
    loads,              \* history: the paths load_json_file was called with
    wrote,              \* history: write_to_file was called in this run
    failed_at,          \* history: the statement that raised
    call,               \* a direct call of one function, and
    ret                 \* what it returned

locals ==
    <<followers_path, followers_data, following_data, followers, following,
      not_following_back>>
history == <<out_before, loads, wrote, failed_at>>
env == <<fs, disk>>
harness == <<call, ret>>
vars == <<env, out_file, pc, run, locals, exc, outcome, history, harness>>

NoCall == [fn |-> "none"]
NotReturned == [done |-> FALSE, res |-> Ok(PyNone), file |-> NoFile]
Returned(res, file) == [done |-> TRUE, res |-> res, file |-> file]

\* main's locals before main assigns them
FreshLocals ==
    /\ followers_path = "followers_1.json"
    /\ followers_data = PyNone
    /\ following_data = PyNone
    /\ followers = {}
    /\ following = {}
    /\ not_following_back = {}

FreshRun ==
    /\ FreshLocals
    /\ exc = "none"
    /\ outcome = "none"
    /\ loads = <<>>
    /\ wrote = FALSE
    /\ failed_at = "none"

Init ==
    /\ fs \in FsStates
    /\ disk \in DiskStates
    /\ out_file = NoFile
    /\ out_before = NoFile
    /\ pc = "resolve"
    /\ run = 1
    /\ FreshRun
    /\ call = NoCall
    /\ ret = NotReturned

\* the same, of the state a new run starts in
FreshRunNext ==
    /\ followers_path' = "followers_1.json"
    /\ followers_data' = PyNone
    /\ following_data' = PyNone
    /\ followers' = {}
    /\ following' = {}
    /\ not_following_back' = {}
    /\ exc' = "none"
    /\ outcome' = "none"
    /\ loads' = <<>>
    /\ wrote' = FALSE
    /\ failed_at' = "none"

-----------------------------------------------------------------------------
(* main *)

\* resolve_followers_path without the alternative name
resolve_followers_path_no_fallback(files) == "followers_1.json"

\* lines 142-148: followers_1.json, or followers.json when that does not exist
resolve_followers_path(files) ==
    IF Exists(files["followers_1.json"]) THEN "followers_1.json" ELSE "followers.json"

\* ShouldWrite with the test inverted, and with no test
ShouldWrite_inverted(users) == users = {}
ShouldWrite_always(users) == TRUE

\* line 170: a set is true when it is not empty
ShouldWrite(users) == users # {}

\* an exception leaves the try block for the handlers
Throw(e, at) ==
    /\ exc' = e
    /\ failed_at' = at
    /\ pc' = "except"

ResolvePath ==
    /\ pc = "resolve"
    /\ followers_path' = resolve_followers_path(fs)
    /\ pc' = "load_followers"
    /\ UNCHANGED <<env, out_file, run, followers_data, following_data, followers,
                   following, not_following_back, exc, outcome, history, harness>>

LoadFollowers ==
    /\ pc = "load_followers"
    /\ loads' = Append(loads, followers_path)
    /\ LET r == load_json_file(fs[followers_path])
       IN  IF r.ok
           THEN /\ followers_data' = r.val
                /\ pc' = "load_following"
                /\ UNCHANGED <<exc, failed_at>>
           ELSE /\ Throw(r.exc, "load_followers")
                /\ UNCHANGED followers_data
    /\ UNCHANGED <<env, out_file, run, followers_path, following_data, followers,
                   following, not_following_back, outcome, out_before, wrote, harness>>

LoadFollowing ==
    /\ pc = "load_following"
    /\ loads' = Append(loads, "following.json")
    /\ LET r == load_json_file(fs["following.json"])
       IN  IF r.ok
           THEN /\ following_data' = r.val
                /\ pc' = "extract_followers"
                /\ UNCHANGED <<exc, failed_at>>
           ELSE /\ Throw(r.exc, "load_following")
                /\ UNCHANGED following_data
    /\ UNCHANGED <<env, out_file, run, followers_path, followers_data, followers,
                   following, not_following_back, outcome, out_before, wrote, harness>>

ExtractFollowers ==
    /\ pc = "extract_followers"
    /\ LET r == extract_followers(followers_data)
       IN  IF r.ok
           THEN /\ followers' = r.val
                /\ pc' = "extract_following"
                /\ UNCHANGED <<exc, failed_at>>
           ELSE /\ Throw(r.exc, "extract_followers")
                /\ UNCHANGED followers
    /\ UNCHANGED <<env, out_file, run, followers_path, followers_data, following_data,
                   following, not_following_back, outcome, out_before, loads, wrote,
                   harness>>

ExtractFollowing ==
    /\ pc = "extract_following"
    /\ LET r == extract_following(following_data)
       IN  IF r.ok
           THEN /\ following' = r.val
                /\ pc' = "find_non_followers"
                /\ UNCHANGED <<exc, failed_at>>
           ELSE /\ Throw(r.exc, "extract_following")
                /\ UNCHANGED following
    /\ UNCHANGED <<env, out_file, run, followers_path, followers_data, following_data,
                   followers, not_following_back, outcome, out_before, loads, wrote,
                   harness>>

FindNonFollowers ==
    /\ pc = "find_non_followers"
    /\ not_following_back' = find_non_followers(following, followers)
    /\ pc' = "write_results"
    /\ UNCHANGED <<env, out_file, run, followers_path, followers_data, following_data,
                   followers, following, exc, outcome, history, harness>>

\* lines 170-175
WriteResults ==
    /\ pc = "write_results"
    /\ IF ShouldWrite(not_following_back)
       THEN LET w == write_to_file(not_following_back, out_file, disk)
            IN  /\ out_file' = w.file
                /\ wrote' = TRUE
                /\ IF w.res.ok
                   THEN /\ outcome' = "report_written"
                        /\ pc' = "done"
                        /\ UNCHANGED <<exc, failed_at>>
                   ELSE /\ Throw(w.res.exc, "write_to_file")
                        /\ UNCHANGED outcome
       ELSE /\ outcome' = "everyone_follows_back"
            /\ pc' = "done"
            /\ UNCHANGED <<out_file, wrote, exc, failed_at>>
    /\ UNCHANGED <<env, run, locals, out_before, loads, harness>>

\* lines 177-182
ExceptFileNotFoundError ==
    /\ pc = "except"
    /\ IsInstance(exc, "FileNotFoundError")
    /\ outcome' = "missing_file"
    /\ pc' = "done"
    /\ UNCHANGED <<env, out_file, run, locals, exc, history, harness>>

\* lines 184-186
ExceptJSONDecodeError ==
    /\ pc = "except"
    /\ ~IsInstance(exc, "FileNotFoundError")
    /\ IsInstance(exc, "JSONDecodeError")
    /\ outcome' = "malformed_json"
    /\ pc' = "done"
    /\ UNCHANGED <<env, out_file, run, locals, exc, history, harness>>

\* lines 188-189
ExceptException ==
    /\ pc = "except"
    /\ ~IsInstance(exc, "FileNotFoundError")
    /\ ~IsInstance(exc, "JSONDecodeError")
    /\ IsInstance(exc, "Exception")
    /\ outcome' = "unexpected_error"
    /\ pc' = "done"
    /\ UNCHANGED <<env, out_file, run, locals, exc, history, harness>>

\* the script is started again, on whatever the input files then are; the
\* output file is what the earlier runs left
NextRun ==
    /\ pc = "done"
    /\ run < MaxRuns
    /\ run' = run + 1
    /\ fs' \in FsStates
    /\ disk' \in DiskStates
    /\ pc' = "resolve"
    /\ out_before' = out_file
    /\ FreshRunNext
    /\ UNCHANGED <<out_file, harness>>

Next ==
    \/ ResolvePath
    \/ LoadFollowers
    \/ LoadFollowing
    \/ ExtractFollowers
    \/ ExtractFollowing
    \/ FindNonFollowers
    \/ WriteResults
    \/ ExceptFileNotFoundError
    \/ ExceptJSONDecodeError
    \/ ExceptException
    \/ NextRun

Spec == Init /\ [][Next]_vars

-----------------------------------------------------------------------------
(* Each function called directly, once, on a drawn input *)

InitFn ==
    /\ call \in Calls
    /\ ret = NotReturned
    /\ fs = [p \in Paths |-> Absent]
    /\ disk = "ok"
    /\ out_file = NoFile
    /\ out_before = NoFile
    /\ pc = "idle"
    /\ run = 0
    /\ FreshRun

CallExtractFollowers ==
    /\ ~ret.done
    /\ call.fn = "extract_followers"
    /\ ret' = Returned(extract_followers(call.data), NoFile)
    /\ UNCHANGED <<env, out_file, pc, run, locals, exc, outcome, history, call>>

CallExtractFollowing ==
    /\ ~ret.done
    /\ call.fn = "extract_following"
    /\ ret' = Returned(extract_following(call.data), NoFile)
    /\ UNCHANGED <<env, out_file, pc, run, locals, exc, outcome, history, call>>

CallFindNonFollowers ==
    /\ ~ret.done
    /\ call.fn = "find_non_followers"
    /\ ret' = Returned(Ok(find_non_followers(call.following, call.followers)), NoFile)
    /\ UNCHANGED <<env, out_file, pc, run, locals, exc, outcome, history, call>>

CallWriteToFile ==
    /\ ~ret.done
    /\ call.fn = "write_to_file"
    /\ LET w == write_to_file(call.users, call.file, call.disk)
       IN  ret' = Returned(w.res, w.file)
    /\ UNCHANGED <<env, out_file, pc, run, locals, exc, outcome, history, call>>

NextFn ==
    \/ CallExtractFollowers
    \/ CallExtractFollowing
    \/ CallFindNonFollowers
    \/ CallWriteToFile

SpecFn == InitFn /\ [][NextFn]_vars

-----------------------------------------------------------------------------
(* What the properties are stated with *)

Failures == {"missing_file", "malformed_json", "unexpected_error"}
Outcomes == {"report_written", "everyone_follows_back"} \cup Failures

\* the lines of a file: the runs of bytes between newlines, and what follows
\* the last newline when that is not empty
RECURSIVE LinesFrom(_, _)
LinesFrom(bytes, cur) ==
    IF bytes = <<>> THEN (IF cur = <<>> THEN <<>> ELSE <<cur>>)
    ELSE IF Head(bytes) = Newline THEN <<cur>> \o LinesFrom(Tail(bytes), <<>>)
    ELSE LinesFrom(Tail(bytes), Append(cur, Head(bytes)))

Lines(bytes) == LinesFrom(bytes, <<>>)

\* a before b in lexicographic order
LexLess(a, b) ==
    \E k \in 0..Len(a) :
        /\ k <= Len(b)
        /\ SubSeq(a, 1, k) = SubSeq(b, 1, k)
        /\ \/ k = Len(a) /\ k < Len(b)
           \/ k < Len(a) /\ k < Len(b) /\ a[k + 1] < b[k + 1]

\* one line per identifier, in non-decreasing order, none blank, no two equal
ReportLinesOk(bytes, users) ==
    LET ls == Lines(bytes)
    IN  /\ Len(ls) = Cardinality(users)
        /\ \A i \in 1..(Len(ls) - 1) : LexLess(ls[i], ls[i + 1]) \/ ls[i] = ls[i + 1]
        /\ \A i \in DOMAIN ls : ls[i] # <<>>
        /\ \A i, j \in DOMAIN ls : i # j => ls[i] # ls[j]
        /\ (users = {} => bytes = <<>>)

AllStr(users) == \A u \in users : u.t = "str"

\* an identifier that is one line of text: not empty, no newline in it
OneLine(u) == u.s # <<>> /\ \A i \in DOMAIN u.s : u.s[i] # Newline

HasKey(d, k) == \E i \in DOMAIN d.kv : d.kv[i][1] = k
ValueAt(d, k) == d.kv[CHOOSE i \in DOMAIN d.kv : d.kv[i][1] = k][2]
Elems(l) == {l.a[i] : i \in DOMAIN l.a}

\* the documented shape of the following file: an object whose
\* "relationships_following", when present, is an array of objects whose
\* "title", when present, is a string
IsFollowingShape(d) ==
    /\ d.t = "dict"
    /\ HasKey(d, K_relationships_following) =>
         LET l == ValueAt(d, K_relationships_following)
         IN  /\ l.t = "list"
             /\ \A r \in Elems(l) :
                  /\ r.t = "dict"
                  /\ HasKey(r, K_title) => ValueAt(r, K_title).t = "str"

\* the documented shape of the followers file: an array of objects whose
\* "string_list_data", when present, is an array of objects whose "value",
\* when present, is a string
IsFollowersShape(d) ==
    /\ d.t = "list"
    /\ \A r \in Elems(d) :
         /\ r.t = "dict"
         /\ HasKey(r, K_string_list_data) =>
              LET l == ValueAt(r, K_string_list_data)
              IN  /\ l.t = "list"
                  /\ \A e \in Elems(l) :
                       /\ e.t = "dict"
                       /\ HasKey(e, K_value) => ValueAt(e, K_value).t = "str"

\* the "title" values under "relationships_following"
Titles(d) ==
    IF ~HasKey(d, K_relationships_following) THEN {}
    ELSE {ValueAt(r, K_title) :
            r \in {x \in Elems(ValueAt(d, K_relationships_following)) : HasKey(x, K_title)}}

\* the "value" fields of the entries of the records' "string_list_data"
Values(d) ==
    UNION {{ValueAt(e, K_value) :
              e \in {x \in Elems(ValueAt(r, K_string_list_data)) : HasKey(x, K_value)}} :
           r \in {x \in Elems(d) : HasKey(x, K_string_list_data)}}

\* the run got as far as line 170
ReachedWriteResults == pc = "done" /\ failed_at \in {"none", "write_to_file"}

-----------------------------------------------------------------------------
(* Properties of the functions, under SpecFn *)

\* C1: find_non_followers(following, followers) holds exactly the identifiers
\* that are in following and not in followers, so it is empty exactly when
\* following is a subset of followers.
C1_Difference ==
    (ret.done /\ call.fn = "find_non_followers") =>
        LET r == ret.res.val
        IN  /\ \A x \in IdPool : x \in r <=> (x \in call.following /\ x \notin call.followers)
            /\ r \subseteq IdPool
            /\ (r = {}) <=> (call.following \subseteq call.followers)

\* C1 witness: a call where the two directions of the difference differ and
\* part of following is returned.
C1_Witness ==
    /\ ret.done
    /\ call.fn = "find_non_followers"
    /\ call.followers \ call.following # {}
    /\ call.following \cap call.followers # {}
    /\ ret.res.val # {}
    /\ ret.res.val # call.following

\* C2: for a following input of the documented shape, extract_following
\* returns exactly the set of the "title" values of the records under
\* "relationships_following", records without a "title" adding nothing, and
\* the empty set when the key is absent.
C2_Titles ==
    (ret.done /\ call.fn = "extract_following" /\ IsFollowingShape(call.data)) =>
        /\ ret.res.ok
        /\ ret.res.val = Titles(call.data)
        /\ ~HasKey(call.data, K_relationships_following) => ret.res.val = {}

\* C2 witness: a record with a "title" after a record without one.
C2_Witness ==
    /\ ret.done
    /\ call.fn = "extract_following"
    /\ IsFollowingShape(call.data)
    /\ HasKey(call.data, K_relationships_following)
    /\ LET l == ValueAt(call.data, K_relationships_following)
       IN  /\ Len(l.a) = 2
           /\ ~HasKey(l.a[1], K_title)
           /\ HasKey(l.a[2], K_title)
    /\ ret.res.ok
    /\ Cardinality(ret.res.val) = 1

\* C3: for a followers input of the documented shape, extract_followers
\* returns the set that holds an identifier exactly when it is the "value" of
\* an entry of a record's "string_list_data"; records without
\* "string_list_data" and entries without "value" are passed over.
C3_Values ==
    (ret.done /\ call.fn = "extract_followers" /\ IsFollowersShape(call.data)) =>
        /\ ret.res.ok
        /\ ret.res.val = Values(call.data)
        /\ \A x \in ret.res.val : x.t = "str"

\* C3 witness: a record without "string_list_data", then a record whose
\* entry has a "value".
C3_Witness ==
    /\ ret.done
    /\ call.fn = "extract_followers"
    /\ IsFollowersShape(call.data)
    /\ Len(call.data.a) = 2
    /\ ~HasKey(call.data.a[1], K_string_list_data)
    /\ HasKey(call.data.a[2], K_string_list_data)
    /\ ret.res.ok
    /\ ret.res.val = {PyStr(IdB)}

\* C4 as claimed: for every set of identifiers (str), the file write_to_file
\* writes has one line per identifier, the lines in non-decreasing
\* lexicographic order, none blank, no two equal; empty for the empty set.
C4_ReportLines_Claimed ==
    (ret.done /\ call.fn = "write_to_file" /\ AllStr(call.users) /\ ret.res.ok) =>
        ReportLinesOk(ret.file.bytes, call.users)

\* C4: the same for every set of identifiers none of which is empty or holds a
\* newline; the lines are then the UTF-8 bytes of the identifiers.
C4_ReportLines ==
    (/\ ret.done
     /\ call.fn = "write_to_file"
     /\ AllStr(call.users)
     /\ \A u \in call.users : OneLine(u)
     /\ ret.res.ok) =>
        /\ ReportLinesOk(ret.file.bytes, call.users)
        /\ ret.file.exists
        /\ {Lines(ret.file.bytes)[i] : i \in DOMAIN Lines(ret.file.bytes)}
             = {EncodeUtf8(u.s) : u \in call.users}

\* C4 witness: two identifiers written over an earlier report.
C4_Witness ==
    /\ ret.done
    /\ call.fn = "write_to_file"
    /\ call.users = {PyStr(<<97, 98>>), PyStr(IdB)}
    /\ call.file = OldReport
    /\ ret.res.ok
    /\ ret.file = File(<<97, 98, Newline, 98, Newline>>)

-----------------------------------------------------------------------------
(* Properties of main, under Spec *)

\* C5: write_to_file is called, and the output file changed, only when both
\* loads succeeded and the non-follow-back set is not empty; when the set is
\* empty, as it is whenever the following file has no
\* "relationships_following", the write is skipped and the run ends with the
\* "everyone follows back" message.
C5_WriteOnlyWhenNonEmpty ==
    /\ wrote =>
         /\ loads = <<followers_path, "following.json">>
         /\ fs[followers_path].kind = "json"
         /\ fs["following.json"].kind = "json"
         /\ not_following_back # {}
    /\ out_file # out_before => wrote
    /\ (ReachedWriteResults /\ not_following_back = {}) =>
         /\ ~wrote
         /\ outcome = "everyone_follows_back"
    /\ (ReachedWriteResults /\ following_data.t = "dict"
          /\ ~HasKey(following_data, K_relationships_following)) =>
         outcome = "everyone_follows_back"
    /\ outcome = "everyone_follows_back" => ~wrote /\ not_following_back = {}

\* C5 witness: a following file without the key, followers present: the run
\* ends with the message and without a write.
C5_Witness ==
    /\ pc = "done"
    /\ following_data = PyDict(<<>>)
    /\ followers # {}
    /\ outcome = "everyone_follows_back"
    /\ ~wrote

\* C6: the followers file is followers_1.json when that exists and
\* followers.json otherwise; when neither exists the run ends with the
\* missing-file message, following.json is never loaded and the output file
\* is not written.
C6_FollowersCandidates ==
    LET expected ==
            IF fs["followers_1.json"].kind # "absent"
            THEN "followers_1.json" ELSE "followers.json"
    IN  /\ loads # <<>> => loads[1] = expected
        /\ (pc = "done" /\ fs["followers_1.json"].kind = "absent"
              /\ fs["followers.json"].kind = "absent") =>
             /\ outcome = "missing_file"
             /\ loads = <<"followers.json">>
             /\ ~wrote
             /\ out_file = out_before

\* C6 witness: neither followers file exists while following.json does.
C6_Witness ==
    /\ pc = "done"
    /\ fs["followers_1.json"].kind = "absent"
    /\ fs["followers.json"].kind = "absent"
    /\ fs["following.json"].kind = "json"
    /\ outcome = "missing_file"

\* C7 as claimed: whatever JSON values were loaded, only loading and writing
\* fail in a run of main.
C7_OnlyLoadAndWriteFail_Claimed ==
    failed_at \in {"none", "load_followers", "load_following", "write_to_file"}

\* C7: when the loaded values have the documented shapes, optional fields
\* missing or not, the extractors and the differ do not raise: only loading
\* and writing fail.  An extractor raises only on a value of another shape.
C7_OnlyLoadAndWriteFail ==
    /\ failed_at = "extract_followers" => ~IsFollowersShape(followers_data)
    /\ failed_at = "extract_following" => ~IsFollowingShape(following_data)
    /\ failed_at \in {"none", "load_followers", "load_following", "write_to_file",
                      "extract_followers", "extract_following"}
    /\ (pc = "done" /\ fs[followers_path].kind = "json"
          /\ fs["following.json"].kind = "json"
          /\ IsFollowersShape(fs[followers_path].data)
          /\ IsFollowingShape(fs["following.json"].data)) =>
         failed_at \in {"none", "write_to_file"}

\* C7 witness: records without the optional fields went through both
\* extractors, and the run ended with a report.
C7_Witness ==
    /\ pc = "done"
    /\ failed_at = "none"
    /\ outcome = "report_written"
    /\ \E r \in Elems(followers_data) : ~HasKey(r, K_string_list_data)
    /\ \E r \in Elems(ValueAt(following_data, K_relationships_following)) :
         ~HasKey(r, K_title)

\* what write_to_file leaves of users on a writable disk, when it returns
IsCompleteReport(file, users) ==
    LET w == write_to_file(users, NoFile, "ok") IN w.res.ok /\ file = w.file

\* C8: a run that ends in one of the three failure messages leaves no
\* truncated or partly written report: the output file is as it was before the
\* run, or holds the whole report.
C8_NoPartialOutput ==
    (pc = "done" /\ outcome \in Failures) =>
        \/ out_file = out_before
        \/ IsCompleteReport(out_file, not_following_back)

\* C9: a run ends in one of the five outcomes, after one attempt at each
\* load; a load of a path that does not exist ends in the missing-file
\* message and a load of content that cannot be parsed in the malformed-JSON
\* message, never in the unexpected-error message.
C9_OutcomeByErrorKind ==
    pc = "done" =>
        /\ outcome \in Outcomes
        /\ Len(loads) <= 2
        /\ \A i \in DOMAIN loads :
             /\ fs[loads[i]].kind = "absent" => outcome = "missing_file"
             /\ fs[loads[i]].kind \in {"bad_utf8", "bad_json"} =>
                  outcome = "malformed_json"

\* C10: a run that does not reach write_to_file leaves the output file as it
\* was before the run, also when an earlier run wrote a report to it.
C10_OutputKept ==
    /\ ~wrote => out_file = out_before
    /\ (pc = "done" /\ failed_at \in {"load_followers", "load_following"}) =>
         out_file = out_before
    /\ (ReachedWriteResults /\ not_following_back = {}) => out_file = out_before
    /\ (pc = "done" /\ outcome \in {"everyone_follows_back", "missing_file",
                                    "malformed_json"}) =>
         out_file = out_before

\* C10 witness: after an "everyone follows back" run the output file still
\* holds the report of an earlier run.
C10_Witness ==
    /\ pc = "done"
    /\ run = 2
    /\ outcome = "everyone_follows_back"
    /\ out_file.exists
    /\ out_file.bytes # <<>>

=============================================================================
